---- MODULE Spec2Model ----
(***************************************************************************)
(* Model of composables/useProjectStores.js (showcode): the in-memory      *)
(* collection of project stores, its mirror in window.localStorage, the    *)
(* current tab, the alert bus and the two kinds of debounce timers.        *)
(*                                                                         *)
(* A project store is identified by its store id (the storage key).  The   *)
(* collection `projects` holds store references, modelled as store ids;    *)
(* the state behind an id lives in `stores`, so two references to the same *)
(* id are the same store.  useProjectStoreFactory and useCurrentTab are    *)
(* not part of the sources; their operations (load, sync, clear, $dispose, *)
(* $patch, $subscribe, setTabFromProject) follow the written description.  *)
(***************************************************************************)
EXTENDS Integers, Sequences, FiniteSets, TLC

VARIABLES
    isDesktop,      \* $config.isDesktop
    projects,       \* projects.value: sequence of store ids
    stores,         \* store id -> state of the store object made for that id
    registry,       \* ids of the stores that are registered (made, not disposed)
    localStorage,   \* window.localStorage: key -> stored value
    currentTab,     \* currentTab.value: a tab id, or Null
    templates,      \* the template objects of the template store
    alerts,         \* alerts emitted on $bus by the last operation
    thrown,         \* TRUE when the last operation ended by an uncaught exception
    subscribed,     \* ids of the stores whose changes call a debounced store.sync
    syncTimers,     \* store ids with a pending debounced store.sync
    orderTimer,     \* TRUE while the debounced body of syncTabOrder is pending
    nextUuid,       \* number of uuids handed out so far
    lastOp          \* the last operation, its arguments and what it returned

vars == <<isDesktop, projects, stores, registry, localStorage, currentTab,
          templates, alerts, thrown, subscribed, syncTimers, orderTimer,
          nextUuid, lastOp>>

-----------------------------------------------------------------------------
(* Bounds of the model *)

\* uuids (and so fresh stores) available in one behaviour
MaxUuid == 2

\* longest collection a desktop build is driven to
MaxLen == 3

-----------------------------------------------------------------------------
(* Values *)

Null == "null"

namespace == "pages/"

\* the project limit of canAddNewProject on a build that is not the desktop app
PlanLimit == 2

AlertLimit == "Download the desktop app to unlock more tabs."

AlertImport == "Error importing configuration. Required data is missing."

\* uuid(): the n-th value handed out; values never repeat
UuidTable == <<"u1", "u2", "u3", "u4", "u5", "u6">>

uuid(n) == UuidTable[n]

\* ids a caller passes to addNewProject explicitly
ExplicitIds == {"x", "pages/x"}

startsWith(s, prefix) ==
    /\ Len(s) >= Len(prefix)
    /\ SubSeq(s, 1, Len(prefix)) = prefix

\* a store id that is prefixed whatever the id is
storeNamePrefixed(id) == namespace \o id

\* the store id makeProjectStore gives to id
storeName(id) == IF startsWith(id, namespace) THEN id ELSE namespace \o id

\* every store id a session can make
StoreIds == {storeName(id) : id \in ExplicitIds}
            \cup {storeName(uuid(n)) : n \in 1..MaxUuid}

\* a key of local storage that belongs to another part of the application
ForeignKey == "theme"

\* tab ids are uuids of their own
tabId(n) == "tab-" \o uuid(n)

\* created_at is a timestamp: later stores get larger ones, and any
\* timestamp is larger than any tab order
TimeBase == 100

\* a tab that has no order yet
NoOrder == 0 - 1

\* undefined, where a string is expected and where an object is expected
Undefined == "undefined"

UndefinedObject == [undefined |-> TRUE]

\* the state of a store that found nothing to load; n numbers the store
DefaultState(n) ==
    [tab      |-> [id |-> tabId(n), name |-> "Untitled Project",
                   order |-> NoOrder, created_at |-> TimeBase + n],
     page     |-> [orientation |-> "left"],
     settings |-> "default"]

has(data, key) == key \in DOMAIN data

\* the files a user picks for import, as the objects their JSON parses to
ImportFiles ==
    { [tab |-> [name |-> "imported"], page |-> [orientation |-> "left"],
       settings |-> "custom"],
      [tab |-> [name |-> "imported"], page |-> [orientation |-> "portrait"],
       settings |-> "custom"],
      [tab |-> [name |-> "imported"], page |-> [orientation |-> "landscape"],
       settings |-> "custom"],
      [tab |-> [name |-> "imported"], page |-> [orientation |-> "left"]],
      [page |-> [orientation |-> "left"], settings |-> "custom"],
      [tab |-> [name |-> "imported"], settings |-> "custom"],
      [page |-> [orientation |-> "left"]],
      [tab |-> [name |-> "imported"]],
      [settings |-> "custom"],
      [other |-> "data"] }

SomeImportFiles ==
    { [tab |-> [name |-> "imported"], page |-> [orientation |-> "portrait"],
       settings |-> "custom"],
      [tab |-> [name |-> "imported"], page |-> [orientation |-> "left"]],
      [page |-> [orientation |-> "left"], settings |-> "custom"] }

\* a complete file and a file without tab
SessionImportFiles ==
    { [tab |-> [name |-> "imported"], page |-> [orientation |-> "left"],
       settings |-> "custom"],
      [page |-> [orientation |-> "left"], settings |-> "custom"] }

\* the template store's templates, one of them saved by an older version
TemplateNames == {"t1", "t2"}

InitialTemplates ==
    [t \in TemplateNames |->
        [tab      |-> [name |-> "from template"],
         page     |-> [orientation |-> IF t = "t1" THEN "landscape" ELSE "left"],
         settings |-> "template"]]

\* names a user gives a tab when editing a project
EditNames == {"edited", "edited again"}

\* what another part of the application keeps under its own key
ForeignValue == [value |-> "dark"]

-----------------------------------------------------------------------------
(* Functions with a changing domain: the keys of an object *)

Range(seq) == {seq[i] : i \in 1..Len(seq)}

put(f, k, v) == [x \in DOMAIN f \cup {k} |-> IF x = k THEN v ELSE f[x]]

remove(f, k) == [x \in DOMAIN f \ {k} |-> f[x]]

-----------------------------------------------------------------------------
(* The mutable state an operation works on, as one record *)

Mem ==
    [projects     |-> projects,
     stores       |-> stores,
     registry     |-> registry,
     subscribed   |-> subscribed,
     localStorage |-> localStorage,
     currentTab   |-> currentTab,
     templates    |-> templates,
     syncTimers   |-> syncTimers,
     orderTimer   |-> orderTimer,
     nextUuid     |-> nextUuid,
     alerts       |-> <<>>,
     thrown       |-> FALSE,
     ret          |-> Null]

\* A store object that nothing refers to any more is garbage: it is in no
\* collection and no registry, and no pending timer holds its sync.
collect(m) ==
    LET kept == Range(m.projects) \cup m.registry \cup m.syncTimers
    IN  [m EXCEPT !.stores = [name \in DOMAIN @ \cap kept |-> @[name]]]

\* an operation ends: its results become the next state
Commit(m, op, args) ==
    /\ projects' = m.projects
    /\ stores' = collect(m).stores
    /\ registry' = m.registry
    /\ subscribed' = m.subscribed
    /\ localStorage' = m.localStorage
    /\ currentTab' = m.currentTab
    /\ templates' = m.templates
    /\ syncTimers' = m.syncTimers
    /\ orderTimer' = m.orderTimer
    /\ nextUuid' = m.nextUuid
    /\ alerts' = m.alerts
    /\ thrown' = m.thrown
    /\ lastOp' = [op |-> op, args |-> args, ret |-> m.ret]
    /\ UNCHANGED isDesktop

emit(m, message) == [m EXCEPT !.alerts = Append(@, message)]

-----------------------------------------------------------------------------
(* The project store: load, sync, clear, $dispose, $patch, $subscribe *)

\* store.load(): take the stored state when the key holds one
load(m, name) ==
    IF name \in DOMAIN m.localStorage
    THEN [m EXCEPT !.stores = put(@, name, m.localStorage[name])]
    ELSE m

\* store.sync(): write the state of the store to its key
sync(m, name) == [m EXCEPT !.localStorage = put(@, name, m.stores[name])]

\* store.clear(): remove the key
clear(m, name) == [m EXCEPT !.localStorage = remove(@, name)]

\* store.$dispose(): the store leaves the registry and loses its subscriptions
dispose(m, name) ==
    [m EXCEPT !.registry = @ \ {name}, !.subscribed = @ \ {name}]

\* a store made without the subscription
subscribeNothing(m, name) == m

\* store.$subscribe(debounce(store.sync, 2000))
subscribe(m, name) == [m EXCEPT !.subscribed = @ \cup {name}]

\* a state change of the store calls its subscriptions: the debounced sync
\* is scheduled, or put off when it was pending
notify(m, name) ==
    IF name \in m.subscribed
    THEN [m EXCEPT !.syncTimers = @ \cup {name}]
    ELSE m

\* store.$patch(mutator): the mutator's assignments, then the subscriptions
patch(m, name, state) == notify([m EXCEPT !.stores[name] = state], name)

-----------------------------------------------------------------------------
(* useCurrentTab *)

setTabFromProject(m, name) == [m EXCEPT !.currentTab = m.stores[name].tab.id]

-----------------------------------------------------------------------------
(* useProjectStores *)

\* Object.keys(window.localStorage).filter((key) => key.startsWith(namespace))
getPagesFromStorage(m) == {key \in DOMAIN m.localStorage : startsWith(key, namespace)}

\* a limit that is off by one
canAddNewProjectOffByOne(m) == isDesktop \/ Len(m.projects) <= PlanLimit

canAddNewProject(m) == isDesktop \/ Len(m.projects) < PlanLimit

\* makeProjectStore(id): the store id, and the state after the store is made.
\* The factory hands back the registered store of that id when there is one;
\* a store made anew starts from the default state.  n numbers the uuid.
makeName(m, id) == storeName(IF id = Null THEN uuid(m.nextUuid + 1) ELSE id)

\* whether making the store draws a uuid: as its id, or for its default state
drawsUuid(m, id) ==
    \/ id = Null
    \/ /\ makeName(m, id) \notin m.registry
       /\ makeName(m, id) \notin DOMAIN m.localStorage

makeProjectStore(m, id) ==
    LET name == makeName(m, id)
        n == m.nextUuid + 1
        made == IF name \in m.registry
                THEN m
                ELSE [m EXCEPT !.stores = put(@, name, DefaultState(n)),
                               !.registry = @ \cup {name}]
        loaded == load(made, name)
    IN  [subscribe(loaded, name) EXCEPT
            !.nextUuid = IF drawsUuid(m, id) THEN n ELSE @,
            !.ret = name]

\* an addNewProject that puts the new project in front
addNewProjectInFront(m, id) ==
    IF ~canAddNewProject(m)
    THEN [emit(m, AlertLimit) EXCEPT !.ret = Null]
    ELSE LET made == makeProjectStore(m, id)
             newProject == made.ret
             pushed == [made EXCEPT !.projects = <<newProject>> \o @]
         IN  setTabFromProject(pushed, newProject)

\* addNewProject(id)
addNewProject(m, id) ==
    IF ~canAddNewProject(m)
    THEN [emit(m, AlertLimit) EXCEPT !.ret = Null]
    ELSE LET made == makeProjectStore(m, id)
             newProject == made.ret
             pushed == [made EXCEPT !.projects = Append(@, newProject)]
         IN  setTabFromProject(pushed, newProject)

\* the mutator of importNewProject, assignment by assignment; reading
\* data.tab.name of a file without tab throws, after the first two assignments
importMutator(state, data) ==
    LET assigned == [state EXCEPT
                        !.page = IF has(data, "page") THEN data.page
                                 ELSE UndefinedObject,
                        !.settings = IF has(data, "settings") THEN data.settings
                                     ELSE Undefined]
    IN  IF has(data, "tab")
        THEN [state |-> [assigned EXCEPT !.tab.name = data.tab.name],
              thrown |-> FALSE]
        ELSE [state |-> assigned, thrown |-> TRUE]

RequiredKeys == <<"tab", "page", "settings">>

\* a forEach that reports every key, missing or not
RECURSIVE reportEachKey(_, _, _)
reportEachKey(m, data, i) ==
    IF i > Len(RequiredKeys)
    THEN m
    ELSE reportEachKey(emit(m, AlertImport), data, i + 1)

\* the forEach over the required keys: one alert for each key that is missing
RECURSIVE reportMissing(_, _, _)
reportMissing(m, data, i) ==
    IF i > Len(RequiredKeys)
    THEN m
    ELSE reportMissing(IF has(data, RequiredKeys[i]) THEN m
                       ELSE emit(m, AlertImport),
                       data, i + 1)

\* importNewProject() once the user has picked a file that parses to data
importNewProject(m, data) ==
    LET reported == reportMissing(m, data, 1)
        added == addNewProject(reported, Null)
        project == added.ret
    IN  IF project # Null
        THEN LET mutated == importMutator(added.stores[project], data)
             IN  [patch(added, project, mutated.state) EXCEPT
                     !.thrown = mutated.thrown, !.ret = Null]
        ELSE added

\* a copy that is the template itself
cloneNothing(m, t) == [value |-> m.templates[t], shares |-> t]

\* cloneDeep(template): a copy that shares nothing with the template
cloneDeep(m, t) == [value |-> m.templates[t], shares |-> Null]

LegacyOrientations == {"portrait", "landscape"}

\* the mutator of addProjectFromTemplate
templateMutator(state, data) ==
    LET assigned == [state EXCEPT !.page = data.page,
                                  !.settings = data.settings,
                                  !.tab.name = data.tab.name]
    IN  IF assigned.page.orientation \in LegacyOrientations
        THEN [assigned EXCEPT !.page.orientation = "left"]
        ELSE assigned

\* addProjectFromTemplate(template).  state.page is the object data.page, so
\* the port of the orientation writes to data.page too: to the template's
\* own page when data shares it.
addProjectFromTemplate(m, t) ==
    LET data == cloneDeep(m, t)
        added == addNewProject(m, Null)
        project == added.ret
    IN  IF project # Null
        THEN LET state == templateMutator(added.stores[project], data.value)
                 patched == [patch(added, project, state) EXCEPT !.ret = Null]
             IN  IF data.shares # Null
                 THEN [patched EXCEPT
                          !.templates[data.shares].page = state.page]
                 ELSE patched
        ELSE added

\* a splice that removes nothing
spliceNothing(seq, index) == seq

\* Array.prototype.splice(index, 1)
splice(seq, index) ==
    LET len == Len(seq)
        start == IF index < 0
                 THEN (IF len + index < 0 THEN 0 ELSE len + index)
                 ELSE (IF index > len THEN len ELSE index)
    IN  IF start < len
        THEN SubSeq(seq, 1, start) \o SubSeq(seq, start + 2, len)
        ELSE seq

head(seq) == seq[1]

\* findProjectByTabId(tabId): the first project of the collection with that
\* tab id, or nothing
findProjectByTabId(m, id) ==
    LET found == {i \in 1..Len(m.projects) : m.stores[m.projects[i]].tab.id = id}
    IN  IF found = {} THEN Null
        ELSE m.projects[CHOOSE i \in found : \A j \in found : i <= j]

\* currentProject: findProjectByTabId(currentTab.value)
currentProject == findProjectByTabId(Mem, currentTab)

\* a deleteProject that does not replace the last project
deleteProjectNoReplacement(m, project, index) ==
    LET cleared == clear(m, project)
        disposed == dispose(cleared, project)
        spliced == [disposed EXCEPT !.projects = splice(@, index)]
    IN  IF Len(spliced.projects) = 0
        THEN spliced
        ELSE setTabFromProject(spliced, head(spliced.projects))

\* a deleteProject that leaves the current tab as it is when projects remain
deleteProjectKeepsTab(m, project, index) ==
    LET cleared == clear(m, project)
        disposed == dispose(cleared, project)
        spliced == [disposed EXCEPT !.projects = splice(@, index)]
    IN  IF Len(spliced.projects) = 0
        THEN [addNewProject(spliced, Null) EXCEPT !.ret = Null]
        ELSE spliced

\* deleteProject(project, index)
deleteProject(m, project, index) ==
    LET cleared == clear(m, project)
        disposed == dispose(cleared, project)
        spliced == [disposed EXCEPT !.projects = splice(@, index)]
    IN  IF Len(spliced.projects) = 0
        THEN [addNewProject(spliced, Null) EXCEPT !.ret = Null]
        ELSE setTabFromProject(spliced, head(spliced.projects))

\* an iteratee without the fallback
sortKeyNoFallback(state) == state.tab.order

\* the iteratee of hydrateFromStorage: tab.order ?? tab.created_at
sortKey(state) ==
    IF state.tab.order = NoOrder THEN state.tab.created_at ELSE state.tab.order

\* lodash sortBy: ascending by key, elements of equal key in their given order;
\* key maps an element to the value of the iteratee
RECURSIVE sortBy(_, _)
sortBy(seq, key) ==
    IF Len(seq) = 0
    THEN <<>>
    ELSE LET front == sortBy(SubSeq(seq, 1, Len(seq) - 1), key)
             last == seq[Len(seq)]
             keep == {i \in 1..Len(front) : key[front[i]] <= key[last]}
             at == IF keep = {} THEN 0
                   ELSE CHOOSE i \in keep : \A j \in keep : j <= i
         IN  SubSeq(front, 1, at) \o <<last>> \o SubSeq(front, at + 1, Len(front))

\* getPagesFromStorage().map((id) => makeProjectStore(id))
RECURSIVE makeAll(_, _, _)
makeAll(m, keys, i) ==
    IF i > Len(keys)
    THEN m
    ELSE makeAll(makeProjectStore(m, keys[i]), keys, i + 1)

\* hydrateFromStorage(), local storage giving its keys in the order `keys`
hydrateFromStorage(m, keys) ==
    LET made == makeAll(m, keys, 1)
        stored == [i \in 1..Len(keys) |-> makeName(m, keys[i])]
        key == [name \in DOMAIN made.stores |-> sortKey(made.stores[name])]
    IN  [made EXCEPT !.projects = sortBy(stored, key), !.ret = Null]

\* the debounced body of syncTabOrder: projects.value.map(...) in index order
RECURSIVE rewriteOrder(_, _)
rewriteOrder(m, i) ==
    IF i > Len(m.projects)
    THEN m
    ELSE LET name == m.projects[i]
         IN  rewriteOrder(
                 patch(m, name, [m.stores[name] EXCEPT !.tab.order = i - 1]),
                 i + 1)

-----------------------------------------------------------------------------
(* The state after the composable is set up, in the first session *)

Init ==
    /\ isDesktop \in BOOLEAN
    /\ projects = <<>>
    /\ stores = <<>>
    /\ registry = {}
    /\ subscribed = {}
    /\ localStorage = [key \in {ForeignKey} |-> ForeignValue]
    /\ currentTab = Null
    /\ templates = InitialTemplates
    /\ alerts = <<>>
    /\ thrown = FALSE
    /\ syncTimers = {}
    /\ orderTimer = FALSE
    /\ nextUuid = 0
    /\ lastOp = [op |-> "setup", args |-> <<>>, ret |-> Null]

-----------------------------------------------------------------------------
(* Operations *)

\* the sequences that list every element of the set once
Orderings(set) ==
    {seq \in [1..Cardinality(set) -> set] : Range(seq) = set}

\* an addNewProject(id) the bounds of the model leave room for
Room(m, id) ==
    canAddNewProject(m) =>
        /\ Len(m.projects) < MaxLen
        /\ drawsUuid(m, id) => m.nextUuid < MaxUuid

AddNewProject(id) ==
    /\ Room(Mem, id)
    /\ Commit(addNewProject(Mem, id), "addNewProject", <<id>>)

\* a picker that was closed, handled as a file with nothing in it
ImportNothingReported ==
    Commit(emit(Mem, AlertImport), "importNewProject", <<>>)

\* the user closes the file picker: head(files) is undefined
ImportNothing ==
    Commit(Mem, "importNewProject", <<>>)

ImportNewProject(data) ==
    /\ Room(Mem, Null)
    /\ Commit(importNewProject(Mem, data), "importNewProject", <<data>>)

AddProjectFromTemplate(t) ==
    /\ Room(Mem, Null)
    /\ Commit(addProjectFromTemplate(Mem, t), "addProjectFromTemplate", <<t>>)

DeleteProject(project, index) ==
    /\ Len(splice(projects, index)) = 0 => nextUuid < MaxUuid
    /\ Commit(deleteProject(Mem, project, index), "deleteProject",
              <<project, index>>)

HydrateFromStorage(keys) ==
    Commit(hydrateFromStorage(Mem, keys), "hydrateFromStorage", keys)

\* a call of syncTabOrder: the debounced body is scheduled, or put off
SyncTabOrder ==
    Commit([Mem EXCEPT !.orderTimer = TRUE], "syncTabOrder", <<>>)

\* 2500 ms after the last call the body runs
SyncTabOrderFires ==
    /\ orderTimer
    /\ Commit([rewriteOrder(Mem, 1) EXCEPT !.orderTimer = FALSE],
              "syncTabOrder fires", <<>>)

\* 2000 ms after the last change of the store its debounced sync runs
SyncFires(name) ==
    /\ name \in syncTimers
    /\ Commit([sync(Mem, name) EXCEPT !.syncTimers = @ \ {name}],
              "sync fires", <<name>>)

\* the user edits the project of a tab
Edit(name, newName) ==
    /\ stores[name].tab.name # newName
    /\ Commit(patch(Mem, name, [stores[name] EXCEPT !.tab.name = newName]),
              "edit", <<name, newName>>)

\* the user picks a tab
SelectTab(i) ==
    /\ currentTab # stores[projects[i]].tab.id
    /\ Commit(setTabFromProject(Mem, projects[i]), "selectTab", <<i>>)

\* the user drags the tab at i one place to the right
MoveTab(i) ==
    /\ projects[i] # projects[i + 1]
    /\ Commit([Mem EXCEPT !.projects =
                  [@ EXCEPT ![i] = projects[i + 1], ![i + 1] = projects[i]]],
              "moveTab", <<i>>)

\* the page is closed and opened again: what is in memory, pending timers
\* included, is gone; local storage stays; the composable is set up anew
Reload ==
    /\ lastOp.op # "setup"
    /\ projects' = <<>>
    /\ stores' = <<>>
    /\ registry' = {}
    /\ subscribed' = {}
    /\ currentTab' = Null
    /\ alerts' = <<>>
    /\ thrown' = FALSE
    /\ syncTimers' = {}
    /\ orderTimer' = FALSE
    /\ lastOp' = [op |-> "setup", args |-> <<>>, ret |-> Null]
    /\ UNCHANGED <<isDesktop, localStorage, templates, nextUuid>>

\* the steps that make, fill and delete projects
AddNewProjectStep == \E id \in ExplicitIds \cup {Null} : AddNewProject(id)

\* any of the files
ImportNewProjectStep == \E data \in ImportFiles : ImportNewProject(data)

\* a complete file of an older version, a file without settings, one without tab
ImportSomeFileStep == \E data \in SomeImportFiles : ImportNewProject(data)

AddProjectFromTemplateStep == \E t \in TemplateNames : AddProjectFromTemplate(t)

ImportSessionFileStep == \E data \in SessionImportFiles : ImportNewProject(data)

\* deleteProject with any project of the collection and any index
DeleteProjectStep ==
    \E project \in Range(projects), index \in (0 - 1)..Len(projects) :
        DeleteProject(project, index)

\* deleteProject as the tab bar calls it: a project and its own index
DeleteTabStep == \E i \in 1..Len(projects) : DeleteProject(projects[i], i - 1)

\* local storage lists its keys in an order of its own
HydrateFromStorageStep ==
    \E keys \in Orderings(getPagesFromStorage(Mem)) : HydrateFromStorage(keys)

SyncFiresStep == \E name \in syncTimers : SyncFires(name)

\* one edit of a project
EditStep == \E name \in Range(projects) : Edit(name, "edited")

\* edits that follow each other
EditAgainStep ==
    \E name \in Range(projects), newName \in EditNames : Edit(name, newName)

SelectTabStep == \E i \in 1..Len(projects) : SelectTab(i)

MoveTabStep == \E i \in 1..(Len(projects) - 1) : MoveTab(i)

(* The collection and its persistence: every operation but the tab order *)
Next ==
    \/ AddNewProjectStep
    \/ ImportNothing
    \/ ImportSomeFileStep
    \/ AddProjectFromTemplateStep
    \/ DeleteProjectStep
    \/ HydrateFromStorageStep
    \/ SyncFiresStep
    \/ EditStep
    \/ SelectTabStep
    \/ Reload

Spec == Init /\ [][Next]_vars

(* Import: every kind of file, into collections below and at the limit *)
NextImport ==
    \/ \E id \in {Null} : AddNewProject(id)
    \/ ImportNothing
    \/ ImportNewProjectStep
    \/ DeleteTabStep

SpecImport == Init /\ [][NextImport]_vars

(* The tab order: projects are made, moved, deleted, their order synced, *)
(* persisted, and read back in a later session                           *)
NextOrder ==
    \/ AddNewProjectStep
    \/ DeleteTabStep
    \/ MoveTabStep
    \/ SyncTabOrder
    \/ SyncTabOrderFires
    \/ SyncFiresStep
    \/ HydrateFromStorageStep
    \/ Reload

SpecOrder == Init /\ [][NextOrder]_vars

(* A session that finds the projects of earlier sessions in local storage *)
StoredIds == <<"pages/a", "pages/b", "pages/c">>

StoredOrders == {NoOrder, 0, 1}

\* the state an earlier session stored for the i-th of these projects
StoredState(i, order) ==
    [DefaultState(i) EXCEPT !.tab.id = "tab-" \o StoredIds[i],
                            !.tab.order = order,
                            !.tab.created_at = TimeBase - Len(StoredIds) + i - 1]

StoredStorages ==
    UNION { { [key \in {StoredIds[i] : i \in present} \cup {ForeignKey} |->
                 IF key = ForeignKey THEN ForeignValue
                 ELSE LET i == CHOOSE j \in present : StoredIds[j] = key
                      IN  StoredState(i, orders[i])]
              : orders \in [present -> StoredOrders] }
            : present \in SUBSET (1..Len(StoredIds)) }

InitStored ==
    /\ isDesktop \in BOOLEAN
    /\ projects = <<>>
    /\ stores = <<>>
    /\ registry = {}
    /\ subscribed = {}
    /\ localStorage \in StoredStorages
    /\ currentTab = Null
    /\ templates = InitialTemplates
    /\ alerts = <<>>
    /\ thrown = FALSE
    /\ syncTimers = {}
    /\ orderTimer = FALSE
    /\ nextUuid = 0
    /\ lastOp = [op |-> "setup", args |-> <<>>, ret |-> Null]

NextHydrate ==
    \/ HydrateFromStorageStep
    \/ \E id \in {Null} : AddNewProject(id)
    \/ DeleteTabStep
    \/ SelectTabStep

SpecHydrate == InitStored /\ [][NextHydrate]_vars

(* One session with fair timers: a pending debounced sync does run *)
NextSession ==
    \/ \E id \in {Null} : AddNewProject(id)
    \/ ImportSessionFileStep
    \/ DeleteTabStep
    \/ EditAgainStep
    \/ SyncFiresStep
    \/ SyncTabOrder
    \/ SyncTabOrderFires

FairSpec ==
    /\ Init
    /\ [][NextSession]_vars
    /\ \A name \in StoreIds : WF_vars(SyncFires(name))

-----------------------------------------------------------------------------
(* Properties *)

\* C1: on a build that is not the desktop app, addNewProject on a collection
\* that holds the plan limit of projects (or more) leaves the collection and
\* the current tab as they were, returns no project and emits exactly one
\* alert, the one about the limit.
C1_PlanLimitBlocks ==
    [][(lastOp'.op = "addNewProject" /\ ~isDesktop /\ Len(projects) >= PlanLimit)
        => /\ projects' = projects
           /\ currentTab' = currentTab
           /\ lastOp'.ret = Null
           /\ alerts' = <<AlertLimit>>]_vars

C1_Witness ==
    /\ lastOp.op = "addNewProject"
    /\ ~isDesktop
    /\ Len(projects) = PlanLimit
    /\ lastOp.ret = Null
    /\ alerts = <<AlertLimit>>

\* C2 as claimed: once an operation has run, the collection holds at least
\* one project.
C2_NeverEmpty == lastOp.op # "setup" => Len(projects) >= 1

\* C2 as amended: deleteProject never leaves the collection empty, and no
\* operation but hydrateFromStorage (and the setup of a new session) empties
\* a collection that holds a project.
C2_OnlyHydrateEmpties ==
    [][/\ lastOp'.op = "deleteProject" => Len(projects') >= 1
       /\ (Len(projects) >= 1
            /\ lastOp'.op \notin {"hydrateFromStorage", "setup"})
          => Len(projects') >= 1]_vars

C2_Witness ==
    /\ lastOp.op = "deleteProject"
    /\ Len(projects) = 1
    /\ projects[1] # lastOp.args[1]

\* C3: deleteProject of the only project, at index 0, leaves a collection of
\* exactly one project, which is another store than the deleted one and is
\* fresh: it has a new tab id, the default state and nothing stored.
C3_DeleteSoleProject ==
    [][(lastOp'.op = "deleteProject" /\ Len(projects) = 1 /\ lastOp'.args[2] = 0)
        => /\ Len(projects') = 1
           /\ projects'[1] # projects[1]
           /\ nextUuid' = nextUuid + 1
           /\ stores'[projects'[1]] = DefaultState(nextUuid')
           /\ stores'[projects'[1]].tab.id # stores[projects[1]].tab.id
           /\ projects'[1] \in registry'
           /\ projects'[1] \notin DOMAIN localStorage'
           /\ currentTab' = stores'[projects'[1]].tab.id]_vars

C3_Witness ==
    /\ lastOp.op = "deleteProject"
    /\ lastOp.args[2] = 0
    /\ Len(projects) = 1
    /\ projects[1] # lastOp.args[1]
    /\ lastOp.args[1] \notin DOMAIN localStorage
    /\ isDesktop

\* the tab of the project at place i of the collection
TabAt(i) == stores[projects[i]].tab

\* what hydrateFromStorage sorts the project at place i by
KeyAt(i) ==
    IF TabAt(i).order = NoOrder THEN TabAt(i).created_at ELSE TabAt(i).order

\* the place of a store id in a sequence of store ids
PlaceIn(seq, name) == CHOOSE i \in 1..Len(seq) : seq[i] = name

\* C4 as claimed: right after hydrateFromStorage the collection is in
\* ascending tab.order (created_at where a project has no order), and
\* projects of equal tab.order are in ascending created_at.
C4_TiesByCreatedAt ==
    lastOp.op = "hydrateFromStorage" =>
        \A i, j \in 1..Len(projects) :
            i < j => /\ KeyAt(i) <= KeyAt(j)
                     /\ TabAt(i).order = TabAt(j).order
                        => TabAt(i).created_at <= TabAt(j).created_at

\* C4 as amended: right after hydrateFromStorage the collection holds the
\* stored projects in ascending sort key, the sort key being tab.order, or
\* tab.created_at for a project without order; projects of equal sort key
\* are in the order in which local storage listed their keys.
C4_SortedByKeyStable ==
    lastOp.op = "hydrateFromStorage" =>
        /\ Len(projects) = Len(lastOp.args)
        /\ Range(projects) = Range(lastOp.args)
        /\ \A i, j \in 1..Len(projects) :
              i < j => /\ KeyAt(i) <= KeyAt(j)
                       /\ KeyAt(i) = KeyAt(j)
                          => PlaceIn(lastOp.args, projects[i])
                               < PlaceIn(lastOp.args, projects[j])

C4_Witness ==
    /\ lastOp.op = "hydrateFromStorage"
    /\ Len(projects) = 3
    /\ TabAt(1).order = TabAt(2).order
    /\ TabAt(1).created_at > TabAt(2).created_at
    /\ TabAt(3).order = NoOrder
    /\ lastOp.args # projects

\* the last operation was importNewProject with a file picked
ImportedFile == lastOp.op = "importNewProject" /\ Len(lastOp.args) = 1

\* ... and it made a project, which is the last of the collection
ImportMadeProject == ImportedFile /\ AlertLimit \notin Range(alerts)

LastProject == stores[projects[Len(projects)]]

\* C5 as claimed: a project made by importNewProject never holds one of the
\* old orientations; a file with portrait or landscape gives "left".
C5_ImportPortsOrientation ==
    ImportMadeProject =>
        (has(LastProject.page, "orientation")
            => LastProject.page.orientation \notin LegacyOrientations)

MissingOnlySettings(data) ==
    has(data, "tab") /\ has(data, "page") /\ ~has(data, "settings")

\* C6 as claimed: importNewProject of a file with tab and page and without
\* settings makes the collection one longer and emits exactly one alert,
\* in whatever state it is called.
C6_AlwaysCreates ==
    [][(lastOp'.op = "importNewProject" /\ Len(lastOp'.args) = 1
         /\ MissingOnlySettings(lastOp'.args[1]))
        => /\ Len(projects') = Len(projects) + 1
           /\ Len(alerts') = 1]_vars

\* C6 as amended: below the plan limit such an import appends one project,
\* which carries the page and the tab name of the file and undefined
\* settings, and emits exactly one alert, the import error; at the plan
\* limit it makes no project and emits two alerts, the import error and
\* then the limit notice.
C6_CreatesBelowLimit ==
    [][(lastOp'.op = "importNewProject" /\ Len(lastOp'.args) = 1
         /\ MissingOnlySettings(lastOp'.args[1]))
        => IF isDesktop \/ Len(projects) < PlanLimit
           THEN /\ Len(projects') = Len(projects) + 1
                /\ SubSeq(projects', 1, Len(projects)) = projects
                /\ alerts' = <<AlertImport>>
                /\ ~thrown'
                /\ LastProject'.settings = Undefined
                /\ LastProject'.page = lastOp'.args[1].page
                /\ LastProject'.tab.name = lastOp'.args[1].tab.name
           ELSE /\ projects' = projects
                /\ alerts' = <<AlertImport, AlertLimit>>]_vars

C6_Witness ==
    /\ ImportMadeProject
    /\ MissingOnlySettings(lastOp.args[1])
    /\ ~isDesktop
    /\ Len(projects) = PlanLimit
    /\ alerts = <<AlertImport>>
    /\ LastProject.settings = Undefined

\* C7 as claimed: importNewProject ends without an exception whatever keys
\* the file lacks.
C7_ImportNeverThrows == lastOp.op = "importNewProject" => ~thrown

\* C8 as claimed: when the debounced body of syncTabOrder has run, the
\* tab.order of every project of the collection is its index.
C8_OrderIsIndex ==
    lastOp.op = "syncTabOrder fires" =>
        \A i \in 1..Len(projects) : TabAt(i).order = i - 1

\* C9 as claimed: every store id of the collection starts with the
\* namespace, and no two places of the collection hold the same store id.
C9_KeysUniqueNamespaced ==
    /\ \A i \in 1..Len(projects) : startsWith(projects[i], namespace)
    /\ \A i, j \in 1..Len(projects) : i # j => projects[i] # projects[j]

\* the last operation changed the state of the store by a mutation: an edit,
\* the rewrite of the tab order, or the patch of an import
Mutated(name) ==
    \/ lastOp.op = "edit" /\ lastOp.args[1] = name
    \/ lastOp.op = "syncTabOrder fires" /\ name \in Range(projects)
    \/ ImportMadeProject /\ projects[Len(projects)] = name

\* the store is a project that has not been deleted
Live(name) == name \in registry

\* local storage holds the state the store has in memory
Persisted(name) ==
    /\ name \in DOMAIN localStorage
    /\ name \in DOMAIN stores
    /\ localStorage[name] = stores[name]

\* the key of the store gets a value, or another value, in this step
Written(name) ==
    /\ name \in DOMAIN localStorage'
    /\ name \in DOMAIN localStorage => localStorage'[name] # localStorage[name]

\* C10: a mutation of a live project schedules its debounced sync; a key is
\* written only when that sync runs, once for all the mutations since it was
\* scheduled, with the state the store has then; and a mutated project that
\* stays live does get written: its stored copy comes to equal its state.
C10_DebouncedWrite ==
    /\ [][\A name \in StoreIds :
            /\ (Mutated(name)' /\ Live(name)') => name \in syncTimers'
            /\ Written(name)
               => /\ lastOp'.op = "sync fires" /\ lastOp'.args[1] = name
                  /\ name \in syncTimers /\ name \notin syncTimers'
                  /\ localStorage'[name] = stores[name]]_vars
    /\ \A name \in StoreIds :
          (Mutated(name) /\ Live(name)) ~> (~Live(name) \/ Persisted(name))

C10_Witness ==
    /\ lastOp.op = "sync fires"
    /\ Live(lastOp.args[1])
    /\ Persisted(lastOp.args[1])
    /\ stores[lastOp.args[1]].tab.name = "edited again"
    /\ syncTimers = {}

\* C11: importNewProject when the user picks no file changes nothing: the
\* collection, the stores, the current tab, local storage and the pending
\* timers are as they were, no alert is emitted and nothing is thrown.
C11_ImportNothingIsNoOp ==
    [][(lastOp'.op = "importNewProject" /\ lastOp'.args = <<>>)
        => /\ projects' = projects
           /\ stores' = stores
           /\ currentTab' = currentTab
           /\ localStorage' = localStorage
           /\ syncTimers' = syncTimers
           /\ alerts' = <<>>
           /\ ~thrown']_vars

C11_Witness ==
    /\ lastOp.op = "importNewProject"
    /\ lastOp.args = <<>>
    /\ Len(projects) >= 1
    /\ getPagesFromStorage(Mem) # {}
    /\ syncTimers # {}
    /\ alerts = <<>>

\* deleteProject is called with a project of the collection and the index
\* of that project
DeletesAtOwnIndex ==
    /\ lastOp'.op = "deleteProject"
    /\ lastOp'.args[2] \in 0..(Len(projects) - 1)
    /\ projects[lastOp'.args[2] + 1] = lastOp'.args[1]

\* C12: after deleteProject(project, index) with the project's own index, when
\* a project remains, the deleted project is not in the collection, the
\* others are in the order they were in, and the current project is the
\* first of them.
C12_DeleteSelectsFirst ==
    [][(DeletesAtOwnIndex /\ Len(projects) >= 2)
        => /\ lastOp'.args[1] \notin Range(projects')
           /\ projects' = splice(projects, lastOp'.args[2])
           /\ currentTab' = stores'[projects'[1]].tab.id
           /\ currentProject' = projects'[1]]_vars

\* addNewProject returned a project
AddedProject == lastOp'.op = "addNewProject" /\ lastOp'.ret # Null

TemplateMadeProject ==
    lastOp'.op = "addProjectFromTemplate" /\ Len(projects') = Len(projects) + 1

\* the template's page with a legacy orientation ported to "left"
PortedPage(page) ==
    IF page.orientation \in LegacyOrientations
    THEN [page EXCEPT !.orientation = "left"]
    ELSE page

\* C14: addProjectFromTemplate(template) below the plan limit appends one
\* project whose settings and tab name are the template's and whose page is
\* the template's with a legacy orientation ported to "left"; at the plan
\* limit it makes no project; no step ever changes a template, neither the
\* creation of a project from it nor a later mutation of that project.
C14_TemplateCopied ==
    [][/\ (lastOp'.op = "addProjectFromTemplate" /\ canAddNewProject(Mem))
          => /\ TemplateMadeProject
             /\ LET t == templates[lastOp'.args[1]]
                    made == stores'[projects'[Len(projects')]]
                IN  /\ made.page = PortedPage(t.page)
                    /\ made.settings = t.settings
                    /\ made.tab.name = t.tab.name
       /\ (lastOp'.op = "addProjectFromTemplate" /\ ~canAddNewProject(Mem))
          => /\ projects' = projects
             /\ stores' = stores
       /\ templates' = templates]_vars

C14_Witness ==
    /\ lastOp.op = "edit"
    /\ stores[lastOp.args[1]].settings = "template"
    /\ stores[lastOp.args[1]].page.orientation = "left"
    /\ stores[lastOp.args[1]].tab.name = "edited"
    /\ templates["t1"].page.orientation = "landscape"
    /\ templates["t1"].tab.name = "from template"
    /\ ~isDesktop
    /\ Len(projects) = PlanLimit

\* C15: hydrateFromStorage makes the collection hold exactly one project for
\* each key of local storage under the namespace, the project's store id
\* being that key as it is; keys outside the namespace give no project, and
\* local storage keeps its keys and their values.
C15_HydrateOnePerKey ==
    [][lastOp'.op = "hydrateFromStorage"
        => /\ Range(projects') = getPagesFromStorage(Mem)
           /\ Len(projects') = Cardinality(getPagesFromStorage(Mem))
           /\ \A name \in Range(projects') : startsWith(name, namespace)
           /\ ForeignKey \notin Range(projects')
           /\ namespace \o ForeignKey \notin Range(projects')
           /\ \A name \in Range(projects') : name \in registry'
           /\ localStorage' = localStorage]_vars

C15_Witness ==
    /\ lastOp.op = "hydrateFromStorage"
    /\ Len(projects) = Len(StoredIds)
    /\ Range(projects) = Range(StoredIds)
    /\ ForeignKey \in DOMAIN localStorage

\* C16: deleteProject(project, index) leaves the project's key absent from
\* local storage, and the key of a store that is not registered (never made,
\* or deleted and disposed) stays absent: a debounced sync that was pending
\* when the project was deleted does not write it back.
C16_DeletedStaysDeleted ==
    [][/\ lastOp'.op = "deleteProject"
          => lastOp'.args[1] \notin DOMAIN localStorage'
       /\ \A name \in StoreIds :
             (name \notin registry /\ name \notin DOMAIN localStorage)
                => name \notin DOMAIN localStorage']_vars

\* C17: on a build that is not the desktop app the collection never holds
\* more projects than the plan limit.
C17_PlanLimitInvariant == ~isDesktop => Len(projects) <= PlanLimit

\* the body of syncTabOrder has run for the order the collection is in, and
\* no debounced call is pending
OrderSettled ==
    /\ Len(projects) >= 1
    /\ ~orderTimer
    /\ syncTimers = {}
    /\ \A i \in 1..Len(projects) : TabAt(i).order = i - 1

\* the memory of a session that has just begun on this local storage
FreshSession ==
    [Mem EXCEPT !.projects = <<>>, !.stores = <<>>, !.registry = {},
                !.subscribed = {}, !.syncTimers = {}, !.orderTimer = FALSE,
                !.currentTab = Null]

\* C18: once the tab order is synced and every debounced sync has written,
\* hydrateFromStorage in a new session gives the collection the projects it
\* has now, in the order it has now, whatever the order local storage lists
\* its keys in.
C18_OrderRoundTrips ==
    OrderSettled
        => \A keys \in Orderings(getPagesFromStorage(Mem)) :
              hydrateFromStorage(FreshSession, keys).projects = projects

\* the current tab id is the tab id of a project of the collection
CurrentSelected ==
    /\ currentProject # Null
    /\ currentProject \in Range(projects)

\* an operation that selects a project: a creation that made a project, or
\* a deleteProject
Selects ==
    \/ AddedProject
    \/ TemplateMadeProject
    \/ lastOp'.op = "importNewProject" /\ Len(projects') = Len(projects) + 1
    \/ lastOp'.op = "deleteProject"

\* C19 as claimed: whenever the collection holds a project, currentProject is
\* defined and is one of its projects.
C19_CurrentAlwaysDefined == Len(projects) >= 1 => CurrentSelected

\* C19 as amended: a creation that makes a project and every deleteProject
\* leave currentProject a project of the collection, and it stays one until
\* the next hydrateFromStorage or the next session; hydrateFromStorage does
\* not touch the current tab id.
C19_SelectedUntilHydrate ==
    [][/\ Selects => CurrentSelected'
       /\ (CurrentSelected /\ lastOp'.op \notin {"hydrateFromStorage", "setup"})
          => CurrentSelected'
       /\ lastOp'.op = "hydrateFromStorage" => currentTab' = currentTab]_vars

C19_Witness ==
    /\ lastOp.op = "deleteProject"
    /\ Len(projects) = 1
    /\ lastOp.args[1] \notin Range(projects)
    /\ stores[projects[1]].tab.name = "edited"
    /\ currentProject = projects[1]
    /\ getPagesFromStorage(Mem) # {}

====
